---- MODULE Spec2Model ----
(***************************************************************************)
(* Boggle solver (bbatha/boggle): board parsing, the Neighbors iterator,   *)
(* the approximate filter has_word, the per-word exact DFS of              *)
(* solve_single_threaded, the trie and the trie-guided DFS of solve_trie.  *)
(*                                                                         *)
(* Bytes are integers (b'a' = 97, b'\n' = 10); a &[u8] or &str is a        *)
(* sequence of bytes; Option<T> is a sequence of length at most one        *)
(* (None = <<>>, Some(v) = <<v>>); positions are 0-based as in the code.   *)
(***************************************************************************)
EXTENDS Integers, Sequences, FiniteSets, TLC

VARIABLES raw, parsed, board, nb, nbOut, fWord, fRes, words, pc, st, tr

vars == <<raw, parsed, board, nb, nbOut, fWord, fRes, words, pc, st, tr>>

(***************************************************************************)
(* Bounds of the model and constants of the program.                       *)
(***************************************************************************)
\* longest raw board text SpecParse draws (11 bytes = a 3x3 board)
MaxRawLen == 11
\* longest word SpecFilter draws
MaxWordLen == 4
\* most dictionary lines Spec draws
MaxDictLines == 2
\* most further next() calls made on an exhausted Neighbors iterator
MaxExtraCalls == 2
\* largest board side SpecNeighbors draws
MaxSide == 4
\* longest word and most insertions SpecTrie draws
MaxTrieWordLen == 2
MaxInserts == 3

LowerA == 97
LowerZ == 122
NewLine == 10
NumLetters == 26
MinWordLen == 3
TrieMinWordLen == 3

None == <<>>
Some(v) == <<v>>
IsSome(o) == Len(o) = 1
Unwrap(o) == o[1]

\* the last element of a non-empty sequence
Last(s) == s[Len(s)]

(***************************************************************************)
(* str::lines as Board::parse and the solvers use it: split at b'\n', a    *)
(* final empty piece is not a line. (str::lines also drops a b'\r' before  *)
(* the b'\n'; the texts here hold none.)                                   *)
(***************************************************************************)
RECURSIVE Lines(_)
Lines(text) ==
    IF text = <<>> THEN <<>>
    ELSE LET hits == {i \in 1..Len(text) : text[i] = NewLine}
             k == IF hits = {} THEN Len(text) + 1
                  ELSE CHOOSE i \in hits : \A j \in hits : i <= j
         IN <<SubSeq(text, 1, k - 1)>> \o Lines(SubSeq(text, k + 1, Len(text)))

(***************************************************************************)
(* Board::parse. The result is Ok(Board {board, letters}) or               *)
(* Err(Error::BoardSize).                                                  *)
(***************************************************************************)
ParseLetters(rows) ==
    [c \in 0..(NumLetters - 1) |->
        \E r \in 1..Len(rows) : \E j \in 1..Len(rows[r]) : rows[r][j] - LowerA = c]

Parse(text) ==
    LET rows == Lines(text)
    IN IF \E r \in 1..Len(rows) : Len(rows[r]) # Len(rows)
       THEN [ok |-> FALSE, err |-> "BoardSize"]
       ELSE [ok |-> TRUE, board |-> rows, letters |-> ParseLetters(rows)]

\* Board::len
BoardLen(b) == Len(b.board)

\* Board::get on signed coordinates
BoardGet(b, x, y) ==
    IF x < 0 \/ x >= BoardLen(b) \/ y < 0 \/ y >= BoardLen(b) THEN None
    ELSE IF y + 1 <= Len(b.board[x + 1]) THEN Some(b.board[x + 1][y + 1])
    ELSE None

\* Index<(usize, usize)> for Board; the expect() never fails on the
\* positions the model indexes
BoardIndex(b, x, y) == Unwrap(BoardGet(b, x, y))

\* Board::contains_letters
ContainsLetters(b, word) ==
    \A l \in 1..Len(word) : b.letters[word[l] - LowerA]

(***************************************************************************)
(* DIRECTIONS and the Neighbors iterator. An iterator is                   *)
(* [x, y, current]; NeighborsNext is one call of Iterator::next, giving    *)
(* the iterator afterwards and the Option it returned.                     *)
(***************************************************************************)
DIRECTIONS ==
    << <<1, 0>>, <<1, 1>>, <<0, 1>>, <<-1, 1>>,
       <<-1, 0>>, <<-1, -1>>, <<0, -1>>, <<1, -1>> >>

\* Board::neighbors
NewNeighbors(x, y) == [x |-> x, y |-> y, current |-> 0]

\* InBoundsFrom with the tests for negative coordinates left out
InBoundsNoLower(b, it, d) ==
    /\ it.x + DIRECTIONS[d][1] < BoardLen(b)
    /\ it.y + DIRECTIONS[d][2] < BoardLen(b)

InBoundsFrom(b, it, d) ==
    IsSome(BoardGet(b, it.x + DIRECTIONS[d][1], it.y + DIRECTIONS[d][2]))

NeighborsNext(b, it) ==
    IF it.current >= Len(DIRECTIONS)
    THEN [it |-> it, item |-> None]
    ELSE LET hits == {d \in (it.current + 1)..Len(DIRECTIONS) : InBoundsFrom(b, it, d)}
         IN IF hits = {}
            THEN [it |-> [it EXCEPT !.current = Len(DIRECTIONS)], item |-> None]
            ELSE LET d == CHOOSE h \in hits : \A g \in hits : h <= g
                 IN [it |-> [it EXCEPT !.current = d],
                     item |-> Some(<<it.x + DIRECTIONS[d][1], it.y + DIRECTIONS[d][2]>>)]

\* the positions a `for (x, y) in self.neighbors(..)` loop visits, in order
RECURSIVE NeighborsDrain(_, _)
NeighborsDrain(b, it) ==
    LET r == NeighborsNext(b, it)
    IN IF IsSome(r.item) THEN <<Unwrap(r.item)>> \o NeighborsDrain(b, r.it)
       ELSE <<>>

NeighborsOf(b, x, y) == NeighborsDrain(b, NewNeighbors(x, y))

(***************************************************************************)
(* multivec: Vec2 and Vec3 are a shape and a flat data vector; data[n] of  *)
(* the code is data[n + 1] here.                                           *)
(***************************************************************************)
Vec2Fill(width, height, value) ==
    [width |-> width, height |-> height,
     data |-> [n \in 1..(width * height) |-> value]]

Vec2Idx(v, x, y) ==
    IF x >= v.width \/ y >= v.height THEN None
    ELSE Some(x + y * v.width)

Vec2Get(v, x, y) == v.data[Unwrap(Vec2Idx(v, x, y)) + 1]

Vec2Set(v, x, y, value) ==
    [v EXCEPT !.data[Unwrap(Vec2Idx(v, x, y)) + 1] = value]

Vec3Fill(width, height, depth, value) ==
    [width |-> width, height |-> height, depth |-> depth,
     data |-> [n \in 1..(width * height * depth) |-> value]]

Vec3Idx(v, x, y, z) ==
    IF z >= v.depth \/ x >= v.width \/ y >= v.height THEN None
    ELSE Some(v.height * v.width * z + v.width * y + x)

Vec3Get(v, x, y, z) == v.data[Unwrap(Vec3Idx(v, x, y, z)) + 1]

Vec3Set(v, x, y, z, value) ==
    [v EXCEPT !.data[Unwrap(Vec3Idx(v, x, y, z)) + 1] = value]

(***************************************************************************)
(* Board::has_word: the loops over k, i, j with the adjacencies table,     *)
(* returning true from inside the neighbour loop at the last letter.       *)
(***************************************************************************)
\* HasMarkedNeighbor looking at the four orthogonal neighbours only
HasMarkedOrthogonal(b, adjacencies, k, i, j) ==
    LET ns == NeighborsOf(b, i, j)
    IN \E n \in 1..Len(ns) :
          /\ ns[n][1] = i \/ ns[n][2] = j
          /\ Vec3Get(adjacencies, k - 1, ns[n][1], ns[n][2])

\* HasMarkedNeighbor reading the table at position k instead of k - 1
HasMarkedSameLevel(b, adjacencies, k, i, j) ==
    LET ns == NeighborsOf(b, i, j)
    IN \E n \in 1..Len(ns) : Vec3Get(adjacencies, k, ns[n][1], ns[n][2])

HasMarkedNeighbor(b, adjacencies, k, i, j) ==
    LET ns == NeighborsOf(b, i, j)
    IN \E n \in 1..Len(ns) : Vec3Get(adjacencies, k - 1, ns[n][1], ns[n][2])

RECURSIVE HasWordLoop(_, _, _, _, _, _)
HasWordLoop(b, word, adjacencies, k, i, j) ==
    IF k >= Len(word) THEN FALSE
    ELSE IF i >= BoardLen(b) THEN HasWordLoop(b, word, adjacencies, k + 1, 0, 0)
    ELSE IF j >= BoardLen(b) THEN HasWordLoop(b, word, adjacencies, k, i + 1, 0)
    ELSE IF word[k + 1] # BoardIndex(b, i, j)
         THEN HasWordLoop(b, word, adjacencies, k, i, j + 1)
    ELSE IF k = 0
         THEN HasWordLoop(b, word, Vec3Set(adjacencies, k, i, j, TRUE), k, i, j + 1)
    ELSE IF HasMarkedNeighbor(b, adjacencies, k, i, j)
         THEN IF Len(word) - 1 = k THEN TRUE
              ELSE HasWordLoop(b, word, Vec3Set(adjacencies, k, i, j, TRUE), k, i, j + 1)
    ELSE HasWordLoop(b, word, adjacencies, k, i, j + 1)

HasWord(b, word) ==
    HasWordLoop(b, word, Vec3Fill(Len(word), BoardLen(b), BoardLen(b), FALSE), 0, 0, 0)

(***************************************************************************)
(* solve_single_threaded. A DfsItem is [visited, x, y, word], word being   *)
(* the slice &word[0..n]. The stack's top is its last element.             *)
(***************************************************************************)
\* the length and letter tests of line 115, before has_word
StPreCheck(b, word) ==
    ~(Len(word) < MinWordLen \/ ~ContainsLetters(b, word))

\* the whole condition of line 115, negated: the word goes on to the DFS
StPasses(b, word) == StPreCheck(b, word) /\ HasWord(b, word)

StStartItem(b, word, i, j) ==
    [visited |-> Vec2Fill(BoardLen(b), BoardLen(b), FALSE),
     x |-> i, y |-> j, word |-> SubSeq(word, 1, 1)]

\* StPushes without the test of the visited mask
RECURSIVE StPushesNoVisited(_, _, _, _)
StPushesNoVisited(word, curr, visited, ns) ==
    IF ns = <<>> THEN <<>>
    ELSE <<[visited |-> visited, x |-> Head(ns)[1], y |-> Head(ns)[2],
            word |-> SubSeq(word, 1, Len(curr.word) + 1)]>>
         \o StPushesNoVisited(word, curr, visited, Tail(ns))

\* the items the neighbour loop of lines 136-140 pushes, in push order
RECURSIVE StPushes(_, _, _, _)
StPushes(word, curr, visited, ns) ==
    IF ns = <<>> THEN <<>>
    ELSE LET x == Head(ns)[1]
             y == Head(ns)[2]
             rest == StPushes(word, curr, visited, Tail(ns))
         IN IF ~Vec2Get(visited, x, y)
            THEN <<[visited |-> visited, x |-> x, y |-> y,
                    word |-> SubSeq(word, 1, Len(curr.word) + 1)]>> \o rest
            ELSE rest

\* one iteration of `while let Some(mut curr) = stack.pop()`, lines 125-141
StPopStep(b, word, stack) ==
    LET curr == Last(stack)
        rest == SubSeq(stack, 1, Len(stack) - 1)
    IN IF BoardIndex(b, curr.x, curr.y) # Last(curr.word)
       THEN [stack |-> rest, found |-> FALSE]
       ELSE IF Len(curr.word) = Len(word)
       THEN [stack |-> rest, found |-> TRUE]
       ELSE LET visited == Vec2Set(curr.visited, curr.x, curr.y, TRUE)
            IN [stack |-> rest \o StPushes(word, curr, visited,
                                           NeighborsOf(b, curr.x, curr.y)),
                found |-> FALSE]

\* the while loop run until the stack is empty (FALSE) or the word is found
\* (TRUE). The stack is last-in first-out and an item carries all it needs,
\* so the loop handles the top item, then all that the item pushed, and
\* only then the items below it: the recursion follows that order.
RECURSIVE StDfsRun(_, _, _)
StDfsRun(b, word, stack) ==
    IF stack = <<>> THEN FALSE
    ELSE LET r == StPopStep(b, word, <<Last(stack)>>)
         IN \/ r.found
            \/ StDfsRun(b, word, r.stack)
            \/ StDfsRun(b, word, SubSeq(stack, 1, Len(stack) - 1))

\* the loops over i and j of lines 120-143 from cell (i, j) on: TRUE when
\* the DFS from some start cell reaches `break 'found`
RECURSIVE ExactFrom(_, _, _, _)
ExactFrom(b, word, i, j) ==
    IF i >= BoardLen(b) THEN FALSE
    ELSE IF j >= BoardLen(b) THEN ExactFrom(b, word, i + 1, 0)
    ELSE IF StDfsRun(b, word, <<StStartItem(b, word, i, j)>>) THEN TRUE
    ELSE ExactFrom(b, word, i, j + 1)

ExactSearch(b, word) == ExactFrom(b, word, 0, 0)

(***************************************************************************)
(* trie: the arena is the sequence of allocated nodes, a node reference is *)
(* its index; the root is node 1. A node is [word, word_end, seen, roots]. *)
(***************************************************************************)
TrieNew(word_end, word) ==
    [word |-> word, word_end |-> word_end, seen |-> FALSE,
     roots |-> [c \in 0..(NumLetters - 1) |-> None]]

\* TrieNode::root in a fresh arena
TrieRoot == <<TrieNew(FALSE, <<>>)>>

\* TrieNode::insert from letter l on, `last` being the node reached
RECURSIVE TrieInsertFrom(_, _, _, _)
TrieInsertFrom(arena, last, word, l) ==
    IF l >= Len(word) THEN arena
    ELSE LET c == word[l + 1]
             root == arena[last].roots[c - LowerA]
         IN IF IsSome(root)
            THEN TrieInsertFrom(arena, Unwrap(root), word, l + 1)
            ELSE LET child == Len(arena) + 1
                     grown == Append(arena,
                                 TrieNew(l = Len(word) - 1, SubSeq(word, 1, l + 1)))
                 IN TrieInsertFrom(
                        [grown EXCEPT ![last].roots[c - LowerA] = Some(child)],
                        child, word, l + 1)

TrieInsert(arena, word) == TrieInsertFrom(arena, 1, word, 0)

\* TrieNode::get
TrieGet(arena, node, c) ==
    IF c < LowerA \/ c > LowerZ THEN None
    ELSE arena[node].roots[c - LowerA]

\* TrieNode::contains from node `last`
RECURSIVE TrieContainsFrom(_, _, _)
TrieContainsFrom(arena, last, word) ==
    IF word = <<>> THEN TRUE
    ELSE LET root == TrieGet(arena, last, Head(word))
         IN IF IsSome(root) THEN TrieContainsFrom(arena, Unwrap(root), Tail(word))
            ELSE FALSE

TrieContains(arena, word) == TrieContainsFrom(arena, 1, word)

(***************************************************************************)
(* solve_trie. A DfsItem is [visited, x, y, trie].                         *)
(***************************************************************************)
\* the test of line 154
TrPreCheck(b, word) == Len(word) >= TrieMinWordLen /\ ContainsLetters(b, word)

TrStartItem(b, i, j) ==
    [visited |-> Vec2Fill(BoardLen(b), BoardLen(b), FALSE),
     x |-> i, y |-> j, trie |-> 1]

\* the items the neighbour loop of lines 178-185 pushes, in push order
RECURSIVE TrPushes(_, _, _, _, _)
TrPushes(b, arena, curr, visited, ns) ==
    IF ns = <<>> THEN <<>>
    ELSE LET x == Head(ns)[1]
             y == Head(ns)[2]
             next == TrieGet(arena, curr.trie, BoardIndex(b, x, y))
             rest == TrPushes(b, arena, curr, visited, Tail(ns))
         IN IF IsSome(next) /\ ~Vec2Get(visited, x, y)
            THEN <<[visited |-> visited, x |-> x, y |-> y,
                    trie |-> Unwrap(next)]>> \o rest
            ELSE rest

\* TrPopStep recording the word of every terminal node popped, seen or not
TrPopStepNoSeen(b, arena, stack) ==
    LET curr == Last(stack)
        rest == SubSeq(stack, 1, Len(stack) - 1)
        visited == Vec2Set(curr.visited, curr.x, curr.y, TRUE)
        node == arena[curr.trie]
    IN [stack |-> rest \o TrPushes(b, arena, curr, visited,
                                   NeighborsOf(b, curr.x, curr.y)),
        arena |-> [arena EXCEPT ![curr.trie].seen = TRUE],
        found |-> IF node.word_end THEN Some(node.word) ELSE None,
        node |-> curr.trie,
        wasSeen |-> node.seen]

\* one iteration of `while let Some(mut curr) = stack.pop()`, lines 175-190:
\* the stack and the arena afterwards, and the word pushed to solutions
TrPopStep(b, arena, stack) ==
    LET curr == Last(stack)
        rest == SubSeq(stack, 1, Len(stack) - 1)
        visited == Vec2Set(curr.visited, curr.x, curr.y, TRUE)
        node == arena[curr.trie]
    IN [stack |-> rest \o TrPushes(b, arena, curr, visited,
                                   NeighborsOf(b, curr.x, curr.y)),
        arena |-> [arena EXCEPT ![curr.trie].seen = TRUE],
        found |-> IF ~node.seen /\ node.word_end THEN Some(node.word) ELSE None,
        node |-> curr.trie,
        wasSeen |-> node.seen]

(***************************************************************************)
(* Inputs.                                                                 *)
(***************************************************************************)
\* a variable the running specification does not use
Idle == "idle"

\* the lines joined into one text, each ended by b'\n'
RECURSIVE Unlines(_)
Unlines(lines) ==
    IF lines = <<>> THEN <<>>
    ELSE Head(lines) \o <<NewLine>> \o Unlines(Tail(lines))

SeqsUpTo(S, n) == UNION {[1..m -> S] : m \in 0..n}

\* raw board texts for SpecParse: every text of 'a' and b'\n'
RawTexts == SeqsUpTo({LowerA, NewLine}, MaxRawLen)

\* the rows boards are made of: "abc", "bbc", "ccc", "aba"
BoardRows ==
    { <<97, 98, 99>>, <<98, 98, 99>>, <<99, 99, 99>>, <<97, 98, 97>> }

\* the parsed 3x3 boards of these rows
Boards ==
    {Parse(Unlines(<<r1, r2, r3>>)) : r1 \in BoardRows, r2 \in BoardRows, r3 \in BoardRows}

\* the board of side n holding 'a' everywhere
PlainBoard(n) == Parse(Unlines([r \in 1..n |-> [c \in 1..n |-> LowerA]]))

\* words for SpecFilter: every word over "abc" of 1..MaxWordLen letters
FilterWords == SeqsUpTo({97, 98, 99}, MaxWordLen) \ {<<>>}

\* the boards Spec solves: those of the rows "abc", "bbc", "ccc"
SolveRows == { <<97, 98, 99>>, <<98, 98, 99>>, <<99, 99, 99>> }

SolveBoards ==
    {Parse(Unlines(<<r1, r2, r3>>)) : r1 \in SolveRows, r2 \in SolveRows, r3 \in SolveRows}

\* dictionary lines for Spec: "ab", "abb", "abbb", "abab"
DictWords ==
    { <<97, 98>>, <<97, 98, 98>>, <<97, 98, 98, 98>>, <<97, 98, 97, 98>> }

\* words for SpecTrie: every word over "ab" of 1..MaxTrieWordLen letters
TrieWords == SeqsUpTo({97, 98}, MaxTrieWordLen) \ {<<>>}

\* dictionary texts for Spec: up to MaxDictLines lines, in every order,
\* repeated lines included
DictTexts == {Unlines(d) : d \in SeqsUpTo(DictWords, MaxDictLines)}

(***************************************************************************)
(* SpecParse: Board::parse applied to a raw text.                          *)
(***************************************************************************)
InitParse ==
    /\ raw \in RawTexts
    /\ parsed = None
    /\ pc = "parse"
    /\ board = Idle /\ nb = Idle /\ nbOut = Idle /\ fWord = Idle /\ fRes = Idle
    /\ words = Idle /\ st = Idle /\ tr = Idle

DoParse ==
    /\ pc = "parse"
    /\ parsed' = Some(Parse(raw))
    /\ pc' = "parsed"
    /\ UNCHANGED <<raw, board, nb, nbOut, fWord, fRes, words, st, tr>>

SpecParse == InitParse /\ [][DoParse]_vars

(***************************************************************************)
(* SpecNeighbors: Board::neighbors at a position of the board, then calls  *)
(* of Iterator::next, each result appended to nbOut.                       *)
(***************************************************************************)
InitNeighbors ==
    /\ board \in {PlainBoard(n) : n \in 1..MaxSide}
    /\ \E x \in 0..(BoardLen(board) - 1), y \in 0..(BoardLen(board) - 1) :
          nb = NewNeighbors(x, y)
    /\ nbOut = <<>>
    /\ pc = "neighbors"
    /\ raw = Idle /\ parsed = Idle /\ fWord = Idle /\ fRes = Idle
    /\ words = Idle /\ st = Idle /\ tr = Idle

NbNext ==
    /\ pc = "neighbors"
    /\ Cardinality({n \in 1..Len(nbOut) : nbOut[n] = None}) <= MaxExtraCalls
    /\ LET r == NeighborsNext(board, nb)
       IN /\ nb' = r.it
          /\ nbOut' = Append(nbOut, r.item)
    /\ UNCHANGED <<raw, parsed, board, fWord, fRes, words, pc, st, tr>>

SpecNeighbors == InitNeighbors /\ [][NbNext]_vars

(***************************************************************************)
(* SpecFilter: has_word and the exact DFS applied to a board and a word    *)
(* that passed the length and letter tests of line 115.                    *)
(***************************************************************************)
InitFilter ==
    /\ board \in Boards
    /\ fWord \in FilterWords
    /\ StPreCheck(board, fWord)
    /\ fRes = None
    /\ pc = "filter"
    /\ raw = Idle /\ parsed = Idle /\ nb = Idle /\ nbOut = Idle
    /\ words = Idle /\ st = Idle /\ tr = Idle

DoFilter ==
    /\ pc = "filter"
    /\ fRes' = Some([has_word |-> HasWord(board, fWord),
                     exact |-> ExactSearch(board, fWord)])
    /\ pc' = "filtered"
    /\ UNCHANGED <<raw, parsed, board, nb, nbOut, fWord, words, st, tr>>

SpecFilter == InitFilter /\ [][DoFilter]_vars

(***************************************************************************)
(* Spec: solve_single_threaded and then solve_trie on the same board and   *)
(* dictionary, one stack pop per step.                                     *)
(*   st = [n, i, j, stack, solutions, phase]: n the dictionary line being  *)
(*        handled, (i, j) the start cell of the running DFS;               *)
(*   tr = [arena, n, i, j, stack, solutions, last]: n the next line to     *)
(*        insert, (i, j) the next start cell, last the node the last pop   *)
(*        took and the seen flag it found there.                           *)
(***************************************************************************)
DictLines == Lines(words)

Init ==
    /\ board \in SolveBoards
    /\ words \in DictTexts
    /\ pc = "single"
    /\ st = [n |-> 1, i |-> 0, j |-> 0, stack |-> <<>>, solutions |-> <<>>,
             phase |-> "word"]
    /\ tr = [arena |-> TrieRoot, n |-> 1, i |-> 0, j |-> 0, stack |-> <<>>,
             solutions |-> <<>>, last |-> None]
    /\ raw = Idle /\ parsed = Idle /\ nb = Idle /\ nbOut = Idle
    /\ fWord = Idle /\ fRes = Idle

\* line 115 rejects the word: continue
StSkipWord ==
    /\ pc = "single" /\ st.phase = "word" /\ st.n <= Len(DictLines)
    /\ ~StPasses(board, DictLines[st.n])
    /\ st' = [st EXCEPT !.n = st.n + 1]
    /\ UNCHANGED <<raw, parsed, board, nb, nbOut, fWord, fRes, words, pc, tr>>

\* the word passes line 115: truncate the stack, push the item of cell (0, 0)
StBeginWord ==
    /\ pc = "single" /\ st.phase = "word" /\ st.n <= Len(DictLines)
    /\ StPasses(board, DictLines[st.n])
    /\ st' = [st EXCEPT !.phase = "dfs", !.i = 0, !.j = 0,
                        !.stack = <<StStartItem(board, DictLines[st.n], 0, 0)>>]
    /\ UNCHANGED <<raw, parsed, board, nb, nbOut, fWord, fRes, words, pc, tr>>

\* one iteration of the while loop; on `break 'found` the word is pushed to
\* solutions and the loop over the words goes on
StPop ==
    /\ pc = "single" /\ st.phase = "dfs" /\ st.stack # <<>>
    /\ LET r == StPopStep(board, DictLines[st.n], st.stack)
       IN st' = IF r.found
                THEN [st EXCEPT !.stack = r.stack,
                                !.solutions = Append(st.solutions, DictLines[st.n]),
                                !.phase = "word", !.n = st.n + 1]
                ELSE [st EXCEPT !.stack = r.stack]
    /\ UNCHANGED <<raw, parsed, board, nb, nbOut, fWord, fRes, words, pc, tr>>

\* the while loop ended with the stack empty: the next start cell, or the
\* next word when the loops over i and j are over
StNextCell ==
    /\ pc = "single" /\ st.phase = "dfs" /\ st.stack = <<>>
    /\ LET j2 == IF st.j + 1 < BoardLen(board) THEN st.j + 1 ELSE 0
           i2 == IF st.j + 1 < BoardLen(board) THEN st.i ELSE st.i + 1
       IN st' = IF i2 < BoardLen(board)
                THEN [st EXCEPT !.i = i2, !.j = j2,
                                !.stack = <<StStartItem(board, DictLines[st.n], i2, j2)>>]
                ELSE [st EXCEPT !.phase = "word", !.n = st.n + 1]
    /\ UNCHANGED <<raw, parsed, board, nb, nbOut, fWord, fRes, words, pc, tr>>

\* solve_single_threaded returns; solve_trie starts
StReturn ==
    /\ pc = "single" /\ st.phase = "word" /\ st.n > Len(DictLines)
    /\ pc' = "build"
    /\ UNCHANGED <<raw, parsed, board, nb, nbOut, fWord, fRes, words, st, tr>>

\* one iteration of the build loop, lines 153-157
TrInsertLine ==
    /\ pc = "build" /\ tr.n <= Len(DictLines)
    /\ tr' = [tr EXCEPT !.n = tr.n + 1,
                        !.arena = IF TrPreCheck(board, DictLines[tr.n])
                                  THEN TrieInsert(tr.arena, DictLines[tr.n])
                                  ELSE tr.arena]
    /\ UNCHANGED <<raw, parsed, board, nb, nbOut, fWord, fRes, words, pc, st>>

TrBuilt ==
    /\ pc = "build" /\ tr.n > Len(DictLines)
    /\ pc' = "trie"
    /\ UNCHANGED <<raw, parsed, board, nb, nbOut, fWord, fRes, words, st, tr>>

\* lines 171-173: the next start cell is pushed with the root
TrStartCell ==
    /\ pc = "trie" /\ tr.stack = <<>> /\ tr.i < BoardLen(board)
    /\ tr' = [tr EXCEPT !.stack = <<TrStartItem(board, tr.i, tr.j)>>,
                        !.j = IF tr.j + 1 < BoardLen(board) THEN tr.j + 1 ELSE 0,
                        !.i = IF tr.j + 1 < BoardLen(board) THEN tr.i ELSE tr.i + 1]
    /\ UNCHANGED <<raw, parsed, board, nb, nbOut, fWord, fRes, words, pc, st>>

\* one iteration of the while loop, lines 175-190
TrPop ==
    /\ pc = "trie" /\ tr.stack # <<>>
    /\ LET r == TrPopStep(board, tr.arena, tr.stack)
       IN tr' = [tr EXCEPT !.stack = r.stack, !.arena = r.arena,
                           !.solutions = IF IsSome(r.found)
                                         THEN Append(tr.solutions, Unwrap(r.found))
                                         ELSE tr.solutions,
                           !.last = Some([node |-> r.node, wasSeen |-> r.wasSeen])]
    /\ UNCHANGED <<raw, parsed, board, nb, nbOut, fWord, fRes, words, pc, st>>

\* solve_trie returns
TrReturn ==
    /\ pc = "trie" /\ tr.stack = <<>> /\ tr.i >= BoardLen(board)
    /\ pc' = "done"
    /\ UNCHANGED <<raw, parsed, board, nb, nbOut, fWord, fRes, words, st, tr>>

Next ==
    \/ StSkipWord \/ StBeginWord \/ StPop \/ StNextCell \/ StReturn
    \/ TrInsertLine \/ TrBuilt \/ TrStartCell \/ TrPop \/ TrReturn

Spec == Init /\ [][Next]_vars

(***************************************************************************)
(* SpecTrie: words inserted into an empty trie, in any order.              *)
(*   tr = [arena, inserted]                                                *)
(***************************************************************************)
InitTrie ==
    /\ tr = [arena |-> TrieRoot, inserted |-> <<>>]
    /\ pc = "insert"
    /\ raw = Idle /\ parsed = Idle /\ board = Idle /\ nb = Idle /\ nbOut = Idle
    /\ fWord = Idle /\ fRes = Idle /\ words = Idle /\ st = Idle

TrieInsertWord ==
    /\ pc = "insert" /\ Len(tr.inserted) < MaxInserts
    /\ \E w \in TrieWords :
          tr' = [arena |-> TrieInsert(tr.arena, w), inserted |-> Append(tr.inserted, w)]
    /\ UNCHANGED <<raw, parsed, board, nb, nbOut, fWord, fRes, words, pc, st>>

SpecTrie == InitTrie /\ [][TrieInsertWord]_vars

(***************************************************************************)
(* The notions the claims are stated in, defined from the rules of the     *)
(* game and not from the code: cells, 8-adjacency, walks (cells may        *)
(* repeat) and simple paths (cells pairwise distinct) that spell a word.   *)
(***************************************************************************)
Cells(b) == (0..(BoardLen(b) - 1)) \X (0..(BoardLen(b) - 1))

LetterAt(b, p) == b.board[p[1] + 1][p[2] + 1]

Abs(n) == IF n < 0 THEN 0 - n ELSE n

Adjacent(p, q) ==
    /\ p # q
    /\ Abs(p[1] - q[1]) <= 1
    /\ Abs(p[2] - q[2]) <= 1

Range(s) == {s[n] : n \in 1..Len(s)}

\* the walks of n cells spelling the first n letters of the word
RECURSIVE Walks(_, _, _)
Walks(b, word, n) ==
    IF n = 0 THEN {<<>>}
    ELSE {Append(w, q) : <<w, q>> \in
            {<<w, q>> \in Walks(b, word, n - 1) \X Cells(b) :
                /\ LetterAt(b, q) = word[n]
                /\ n > 1 => Adjacent(Last(w), q)}}

\* the simple paths of n cells spelling the first n letters of the word
RECURSIVE SimplePaths(_, _, _)
SimplePaths(b, word, n) ==
    IF n = 0 THEN {<<>>}
    ELSE {Append(w, q) : <<w, q>> \in
            {<<w, q>> \in SimplePaths(b, word, n - 1) \X Cells(b) :
                /\ LetterAt(b, q) = word[n]
                /\ q \notin Range(w)
                /\ n > 1 => Adjacent(Last(w), q)}}

WalkExists(b, word) == Walks(b, word, Len(word)) # {}
SimplePathExists(b, word) == SimplePaths(b, word, Len(word)) # {}

\* every letter of the word is the letter of some cell
LettersOnBoard(b, word) ==
    \A l \in 1..Len(word) : \E p \in Cells(b) : LetterAt(b, p) = word[l]

\* s is a prefix of w
IsPrefix(s, w) == Len(s) <= Len(w) /\ SubSeq(w, 1, Len(s)) = s

NoRepeats(s) == \A m, n \in 1..Len(s) : m # n => s[m] # s[n]

\* solve_single_threaded has just returned
SingleReturned == pc = "build"

\* the dictionary lines, as a set
DictWordSet == Range(DictLines)

(***************************************************************************)
(* Claims.                                                                 *)
(***************************************************************************)

\* C1: for every valid board and every dictionary (any order, repeated
\* lines allowed) solve_single_threaded and solve_trie return the same
\* number of words.
C1_SameCount ==
    pc = "done" => Len(st.solutions) = Len(tr.solutions)

\* C2: a dictionary word of at least 4 letters, all of them on the board,
\* is reported by solve_single_threaded if and only if a simple path of
\* 8-adjacent cells spells it; a word spelled only by walks that revisit a
\* cell is not reported although has_word accepts it.
C2_SingleReportsIffSimplePath ==
    SingleReturned =>
        \A w \in DictWordSet :
            (Len(w) >= 4 /\ LettersOnBoard(board, w)) =>
                /\ (w \in Range(st.solutions)) <=> SimplePathExists(board, w)
                /\ (HasWord(board, w) /\ ~SimplePathExists(board, w))
                       => w \notin Range(st.solutions)

\* C2's case: the solver has returned, has_word accepted a word of 4
\* letters that no simple path spells and the word was not reported, while
\* another word of 4 letters with a simple path was.
C2_Witness ==
    /\ SingleReturned
    /\ \E w \in DictWordSet :
          /\ Len(w) >= 4 /\ LettersOnBoard(board, w)
          /\ HasWord(board, w) /\ ~SimplePathExists(board, w)
          /\ w \notin Range(st.solutions)
    /\ \E w \in DictWordSet :
          /\ Len(w) >= 4 /\ SimplePathExists(board, w)
          /\ w \in Range(st.solutions)

\* C3: the set of words solve_trie returns is exactly the set of dictionary
\* words that pass the length and letter filter and are spelled by a simple
\* path of 8-adjacent cells, wherever the path starts.
C3_TrieReturnsExactlyPathWords ==
    pc = "done" =>
        Range(tr.solutions) =
            {w \in DictWordSet : TrPreCheck(board, w) /\ SimplePathExists(board, w)}

C5_ParseRejectsBadSizes ==
    pc = "parsed" =>
        LET rows == Lines(raw)
            bad == \/ Len(rows) < 3
                   \/ \E r \in 1..Len(rows) : Len(rows[r]) # Len(rows)
        IN /\ bad => (~Unwrap(parsed).ok /\ Unwrap(parsed).err = "BoardSize")
           /\ Unwrap(parsed).ok => Len(Unwrap(parsed).board) >= 3

\* C6: neither solver ever returns a word shorter than 4 characters or a
\* word with a letter that does not occur on the board.
C6_NoShortOrForeignWords ==
    pc \in {"single", "build", "trie", "done"} =>
        \A w \in Range(st.solutions) \cup Range(tr.solutions) :
            Len(w) >= 4 /\ LettersOnBoard(board, w)

\* the positions p + d, d running through DIRECTIONS in order, that lie in
\* [0, n) x [0, n)
ExpectedNeighbors(n, x, y) ==
    LET cand == [d \in 1..Len(DIRECTIONS) |->
                    <<x + DIRECTIONS[d][1], y + DIRECTIONS[d][2]>>]
        Inside(p) == p[1] \in 0..(n - 1) /\ p[2] \in 0..(n - 1)
    IN SelectSeq(cand, Inside)

\* C7: the Neighbors iterator of an in-bounds position p yields exactly the
\* in-bounds positions p + d, each once, in the order of DIRECTIONS, never
\* p and never a position out of bounds (3 at a corner, 5 on an edge, 8 in
\* the interior), and None on every call after that.
C7_NeighborsExact ==
    pc = "neighbors" =>
        LET n == BoardLen(board)
            e == ExpectedNeighbors(n, nb.x, nb.y)
            yielded == SelectSeq(nbOut, IsSome)
            onRim(c) == c = 0 \/ c = n - 1
        IN /\ \A k \in 1..Len(nbOut) :
                 nbOut[k] = IF k <= Len(e) THEN Some(e[k]) ELSE None
           /\ \A k \in 1..Len(yielded) :
                 /\ Unwrap(yielded[k]) # <<nb.x, nb.y>>
                 /\ Unwrap(yielded[k]) \in Cells(board)
           /\ NoRepeats(yielded)
           /\ (n >= 2 /\ Len(nbOut) > Len(yielded)) =>
                 Len(yielded) = IF onRim(nb.x) /\ onRim(nb.y) THEN 3
                                ELSE IF onRim(nb.x) \/ onRim(nb.y) THEN 5
                                ELSE 8

\* C7's case: the iterator of an interior position has yielded its 8
\* neighbours and then None on further calls.
C7_Witness ==
    /\ pc = "neighbors"
    /\ Len(SelectSeq(nbOut, IsSome)) = 8
    /\ Len(nbOut) >= 10
    /\ nbOut[9] = None /\ nbOut[10] = None

\* the node reached by following the word from `node`, if there is one
RECURSIVE TrieFollow(_, _, _)
TrieFollow(arena, node, word) ==
    IF word = <<>> THEN Some(node)
    ELSE LET root == arena[node].roots[Head(word) - LowerA]
         IN IF IsSome(root) THEN TrieFollow(arena, Unwrap(root), Tail(word))
            ELSE None

\* C8: after any sequence of insertions of non-empty lowercase words into
\* an empty trie, in any order, the node reached by following each inserted
\* word exists, is terminal and carries the word; and contains(s) is true
\* exactly when s is a prefix of an inserted word.
C8_InsertedWordsTerminal ==
    pc = "insert" =>
        /\ \A n \in 1..Len(tr.inserted) :
              LET o == TrieFollow(tr.arena, 1, tr.inserted[n])
              IN /\ IsSome(o)
                 /\ tr.arena[Unwrap(o)].word_end
                 /\ tr.arena[Unwrap(o)].word = tr.inserted[n]
        /\ \A s \in TrieWords :
              TrieContains(tr.arena, s)
                  <=> \E n \in 1..Len(tr.inserted) : IsPrefix(s, tr.inserted[n])

\* no word occurs twice in the solutions of solve_trie
C9_NoRepeat ==
    pc \in {"single", "build", "trie", "done"} => NoRepeats(tr.solutions)

\* one step of the traversal: a seen flag stays set, the word of a terminal
\* node is appended when the node is popped for the first time, and
\* nothing else changes the solutions
C9_Step ==
    pc \in {"single", "build", "trie", "done"} =>
        LET first == {n \in 1..Len(tr.arena) :
                        ~tr.arena[n].seen /\ tr'.arena[n].seen}
        IN /\ \A n \in 1..Len(tr.arena) : tr.arena[n].seen => tr'.arena[n].seen
           /\ \A n \in first :
                 IF tr.arena[n].word_end
                 THEN tr'.solutions = Append(tr.solutions, tr.arena[n].word)
                 ELSE tr'.solutions = tr.solutions
           /\ first = {} => tr'.solutions = tr.solutions

\* C9: in every state of a solve_trie traversal no word occurs twice in
\* the solutions; a terminal node's word is recorded the first time the
\* node is popped and never again, over several paths, start cells or
\* dictionary lines; a seen flag never returns to false.
C9_NoWordTwice == []C9_NoRepeat /\ [][C9_Step]_vars

\* C9's case: a terminal node already seen, its word already recorded, has
\* been popped again, in a dictionary holding the word on two lines.
C9_Witness ==
    /\ pc = "trie"
    /\ IsSome(tr.last)
    /\ Unwrap(tr.last).wasSeen
    /\ tr.arena[Unwrap(tr.last).node].word_end
    /\ tr.arena[Unwrap(tr.last).node].word \in Range(tr.solutions)
    /\ \E m, n \in 1..Len(DictLines) : m # n /\ DictLines[m] = DictLines[n]

\* C10: for a word the solver passes to the filter (at least 3 letters,
\* all on the board) has_word returns true if and only if some sequence of
\* cells, each 8-adjacent to the next and not required to be distinct,
\* spells the word.
C10_HasWordIffWalk ==
    (pc = "filtered" /\ Len(fWord) >= 3 /\ LettersOnBoard(board, fWord)) =>
        (Unwrap(fRes).has_word <=> WalkExists(board, fWord))

\* C10's case: has_word returned true for a word that only a walk
\* revisiting a cell spells.
C10_Witness ==
    /\ pc = "filtered" /\ Len(fWord) >= 3 /\ LettersOnBoard(board, fWord)
    /\ Unwrap(fRes).has_word
    /\ WalkExists(board, fWord)
    /\ ~SimplePathExists(board, fWord)

\* the cells a visited mask marks
Marked(b, visited) == {p \in Cells(b) : Vec2Get(visited, p[1], p[2])}

\* the mask marks exactly the cells of a simple path that spells `before`,
\* the letters of the item's partial word before its current cell `pos`,
\* that leads to pos and does not hold pos
MaskIsPathBefore(b, visited, pos, before) ==
    /\ pos \notin Marked(b, visited)
    /\ \E p \in SimplePaths(b, before, Len(before)) :
          /\ Range(p) = Marked(b, visited)
          /\ Len(p) > 0 => Adjacent(Last(p), pos)

\* the letters of a partial word before its last one
Front(word) == SubSeq(word, 1, Len(word) - 1)

\* the masks on the stack of solve_single_threaded
C11_SingleMasks ==
    \A k \in 1..Len(st.stack) :
        MaskIsPathBefore(board, st.stack[k].visited,
                         <<st.stack[k].x, st.stack[k].y>>, Front(st.stack[k].word))

\* the masks on the stack of solve_trie
C11_TrieMasks ==
    \A k \in 1..Len(tr.stack) :
        MaskIsPathBefore(board, tr.stack[k].visited,
                         <<tr.stack[k].x, tr.stack[k].y>>,
                         Front(tr.arena[tr.stack[k].trie].word))

\* the masks on the stack of solve_trie hold, besides the cells of the
\* partial word before the current cell, the start cell that carried the
\* root, which lies next to the cell of the first letter
C11_TrieMasksWithStart ==
    \A k \in 1..Len(tr.stack) :
        LET item == tr.stack[k]
            word == tr.arena[item.trie].word
            pos == <<item.x, item.y>>
            marked == Marked(board, item.visited)
        IN /\ pos \notin marked
           /\ IF word = <<>> THEN marked = {}
              ELSE \E s \in marked :
                      \E p \in SimplePaths(board, Front(word), Len(word) - 1) :
                          /\ Range(p) = marked \ {s}
                          /\ Len(p) > 0 => Adjacent(Last(p), pos)
                          /\ Adjacent(s, IF Len(p) > 0 THEN p[1] ELSE pos)

\* a pop leaves every item below the popped one as it was: the mask it
\* marks is the popped item's own, and a pushed item carries a copy
C11_OthersUntouched ==
    [][/\ (pc = "single" /\ st.phase = "dfs" /\ st.stack # <<>>) =>
             \A k \in 1..(Len(st.stack) - 1) : st'.stack[k] = st.stack[k]
       /\ (pc = "trie" /\ tr.stack # <<>>) =>
             \A k \in 1..(Len(tr.stack) - 1) : tr'.stack[k] = tr.stack[k]]_vars

\* C11: in every state of the DFS of solve_single_threaded and of
\* solve_trie, the visited mask of each item on the stack marks exactly the
\* cells consumed by the letters of the item's own partial word before its
\* current cell, and no other cell.
C11_MasksExact ==
    pc \in {"single", "build", "trie", "done"} => (C11_SingleMasks /\ C11_TrieMasks)

====
